---- MODULE Spec2Model ----
(***************************************************************************)
(* owid.datautils.dataframes: the element-wise comparator compare(), the   *)
(* function are_equal(), the structural-and-value differ HighLevelDiff,    *)
(* its report get_description_lines_for_diff (with the list helpers of     *)
(* owid.datautils.utils) and groupby_agg(), as a state machine.            *)
(*                                                                         *)
(* A dataframe is a record                                                 *)
(*   columns    : sequence of distinct column labels (df.columns)          *)
(*   index      : sequence of row-keys, duplicates allowed (df.index)      *)
(*   index_name : the name of the (single-level) index (df.index.names)    *)
(*   dtypes     : column label -> dtype                                    *)
(*   data       : column label -> sequence of cell values, one per row     *)
(* Labels, keys and cell values are integers: a label or key 0 is the      *)
(* falsy label/key of Python, NaN is the missing value, NoName is the      *)
(* name None of an unnamed index.  Tolerances are exact rationals.         *)
(***************************************************************************)
EXTENDS Integers, Sequences, FiniteSets, TLC

VARIABLES df1, df2, absolute_tolerance, relative_tolerance, diff, compared, equal_compared,
          description, call, result

vars == <<df1, df2, absolute_tolerance, relative_tolerance, diff, compared, equal_compared,
         description, call, result>>

(***************************************************************************)
(* Bounds of the model.                                                    *)
(***************************************************************************)
MaxRows == 3
MaxKey == 1
MaxLabel == 1
MaxValue == 3

NaN == -1
NoName == -2
None == [none |-> TRUE]

\* A keyword argument left out of a call.
Omitted == [omitted |-> TRUE]

Labels == 0..MaxLabel
Keys == 0..MaxKey
Values == {NaN} \cup (1..MaxValue)
DTypes == {"float64", "object", "category"}
IndexNames == {NoName} \cup Labels

Rational(n, d) == [num |-> n, den |-> d]

\* The value of a parameter: the argument, or the default of the signature
\* when the argument is left out.
Default(arg, default) == IF arg = Omitted THEN default ELSE arg
Tolerances == {Rational(0, 1), Rational(2, 5), Rational(1, 1)}

(***************************************************************************)
(* Helpers standing for Python / pandas primitives.                        *)
(***************************************************************************)
Range(s) == {s[i] : i \in DOMAIN s}

Abs(x) == IF x < 0 THEN -x ELSE x

\* Python truthiness of a label, key or name: 0 and None are falsy.
Truthy(x) == x # 0 /\ x # NoName

\* any(iterable)
any(s) == \E i \in DOMAIN s : Truthy(s[i])

\* pd.isnull on a cell
IsNull(v) == v = NaN

RECURSIVE GCD(_, _)
GCD(m, n) == IF n = 0 THEN m ELSE GCD(n, m % n)

\* type(x) and len(x) of an argument: a dataframe record, or another
\* Python object (a list of items).
type(x) == x.type

len(x) == IF x.type = "DataFrame" THEN Len(x.index) ELSE Len(x.items)

RECURSIVE sorted(_)
sorted(S) ==
    IF S = {} THEN <<>>
    ELSE LET m == CHOOSE x \in S : \A y \in S : x <= y
         IN  <<m>> \o sorted(S \ {m})

\* The subsequence of s at the positions I, in increasing position order.
Take(s, I) == LET idx == sorted(I) IN [r \in 1..Len(idx) |-> s[idx[r]]]

RECURSIVE Flatten(_)
Flatten(ss) == IF ss = <<>> THEN <<>> ELSE Head(ss) \o Flatten(Tail(ss))

\* Index.unique(): first occurrences, in order of appearance.
Unique(ix) == Take(ix, {i \in DOMAIN ix : \A j \in 1..(i - 1) : ix[j] # ix[i]})

\* Index.duplicated(): every occurrence after the first; df[mask].index.values
Duplicated(ix) == Take(ix, {i \in DOMAIN ix : \E j \in 1..(i - 1) : ix[j] = ix[i]})

\* Index.difference(other): unique labels of self not in other, sorted;
\* the fast paths return an empty index for equal indexes and the unsorted
\* unique labels of self when other is empty.
IndexDifference(self, other) ==
    IF self = other THEN <<>>
    ELSE IF other = <<>> THEN Unique(self)
    ELSE sorted(Range(self) \ Range(other))

\* Index.intersection(other): unique labels of self also in other, in the
\* order of self.
IndexIntersection(self, other) ==
    LET u == Unique(self)
    IN  Take(u, {i \in DOMAIN u : u[i] \in Range(other)})

\* Positions of the rows of an index that carry key k.
Positions(ix, k) == sorted({i \in DOMAIN ix : ix[i] = k})

\* df.loc[keys, ...]: for each key, in order, every row carrying it.
LocPositions(ix, keys) == Flatten([r \in DOMAIN keys |-> Positions(ix, keys[r])])

(***************************************************************************)
(* Cell comparison.                                                        *)
(***************************************************************************)
\* Variants of the criterion: within the larger of the two tolerances; the
\* relative tolerance scaled by the first operand; the relative term
\* subtracted.
isclose_max(a, b, atol, rtol) ==
    /\ ~IsNull(a)
    /\ ~IsNull(b)
    /\ \/ Abs(a - b) * atol.den <= atol.num
       \/ Abs(a - b) * rtol.den <= rtol.num * Abs(b)

isclose_scaled_by_first(a, b, atol, rtol) ==
    /\ ~IsNull(a)
    /\ ~IsNull(b)
    /\ Abs(a - b) * atol.den * rtol.den
          <= atol.num * rtol.den + rtol.num * Abs(a) * atol.den

isclose_relative_subtracted(a, b, atol, rtol) ==
    /\ ~IsNull(a)
    /\ ~IsNull(b)
    /\ Abs(a - b) * atol.den * rtol.den
          <= atol.num * rtol.den - rtol.num * Abs(b) * atol.den

\* np.isclose(a, b, atol=, rtol=): |a - b| <= atol + rtol * |b|, and never
\* true when either side is NaN (equal_nan is left False).  Both sides of
\* the inequality are multiplied by the least common denominator of the
\* two tolerances.
isclose(a, b, atol, rtol) ==
    LET g == GCD(atol.den, rtol.den)
    IN  /\ ~IsNull(a)
        /\ ~IsNull(b)
        /\ Abs(a - b) * (atol.den \div g) * rtol.den
              <= atol.num * (rtol.den \div g) + rtol.num * Abs(b) * (atol.den \div g)

\* One cell of DataFrame.eq: a missing value compares equal to nothing.
eq(a, b) == ~IsNull(a) /\ ~IsNull(b) /\ a = b

\* dtype in (object, "category")
IsObjectOrCategory(dt) == dt \in {"object", "category"}

\* The branch taken for a column: tolerant only if neither side is
\* object/category.
IsTolerantColumn(d1, d2, col) ==
    ~(IsObjectOrCategory(d1.dtypes[col]) \/ IsObjectOrCategory(d2.dtypes[col]))

(***************************************************************************)
(* HighLevelDiff._diff: the structural part.                               *)
(***************************************************************************)
\* Variant: the difference taken in the other direction.
ColumnsMissing_swapped(other, self) ==
    sorted(Range(self.columns) \ Range(other.columns))

ColumnsMissing(other, self) == sorted(Range(other.columns) \ Range(self.columns))

\* Variant: the shared columns left in the column order of the first table.
ColumnsShared_in_order_of_first(d1, d2) ==
    Take(d1.columns, {n \in DOMAIN d1.columns : d1.columns[n] \in Range(d2.columns)})

ColumnsShared(d1, d2) == sorted(Range(d1.columns) \cap Range(d2.columns))

IndexColumnsMissing(other, self) == sorted({other.index_name} \ {self.index_name})

IndexColumnsShared(d1, d2) == sorted({d1.index_name} \cap {d2.index_name})

IndexValuesMissing(other, self) == IndexDifference(other.index, self.index)

IndexValuesShared(d1, d2) == IndexIntersection(d2.index, d1.index)

\* The guard of the value diff: a non-empty list of shared columns and
\* any() over the shared index values.
HasOverlap(columns_shared, index_values_shared) ==
    columns_shared # <<>> /\ any(index_values_shared)

(***************************************************************************)
(* HighLevelDiff._diff: the value part.                                    *)
(*                                                                         *)
(* p1 and p2 are the row positions of df1 and df2 selected by .loc, the    *)
(* rows of df1_intersected and df2_intersected.  A row of diffs is a       *)
(* record [key, i, j, cells]: its row-key, the rows of df1 and df2 it      *)
(* pairs (kept to tell the rows of a duplicated key apart), and the        *)
(* boolean per shared column.                                              *)
(***************************************************************************)
\* The row labels of df1_intersected.eq(df2_intersected): the operands are
\* paired by position when their indexes are identical, and are otherwise
\* aligned by an outer join on the index, which pairs every row of a key
\* on the left with every row of that key on the right.
AlignedRows(d1, d2, keys) ==
    LET p1 == LocPositions(d1.index, keys)
        p2 == LocPositions(d2.index, keys)
        ix1 == [r \in DOMAIN p1 |-> d1.index[p1[r]]]
        ix2 == [r \in DOMAIN p2 |-> d2.index[p2[r]]]
        pairs(k) ==
            LET q1 == Positions(d1.index, k)
                q2 == Positions(d2.index, k)
            IN  Flatten([a \in DOMAIN q1 |->
                          [b \in DOMAIN q2 |-> [key |-> k, i |-> q1[a], j |-> q2[b]]]])
    IN  IF ix1 = ix2
        THEN [r \in DOMAIN p1 |-> [key |-> ix1[r], i |-> p1[r], j |-> p2[r]]]
        ELSE Flatten([r \in DOMAIN keys |-> pairs(keys[r])])

\* Length of the result of a numpy binary operation on two 1-d arrays of
\* lengths n1 and n2 (broadcasting), or -1 when the shapes do not broadcast.
BroadcastLen(n1, n2) ==
    IF n1 = n2 THEN n1
    ELSE IF n1 = 1 THEN n2
    ELSE IF n2 = 1 THEN n1
    ELSE -1

\* np.isclose on the two .values arrays, then the both-null positions set
\* to True: the array compared_values, by position.
ComparedValues(d1, d2, col, p1, p2, atol, rtol) ==
    LET n == BroadcastLen(Len(p1), Len(p2))
        at(p, r) == IF Len(p) = 1 THEN p[1] ELSE p[r]
    IN  [r \in 1..n |->
            LET a == d1.data[col][at(p1, r)]
                b == d2.data[col][at(p2, r)]
            IN  IF IsNull(a) /\ IsNull(b) THEN TRUE ELSE isclose(a, b, atol, rtol)]

\* The loop over diffs.columns raises ValueError when np.isclose cannot
\* broadcast the two arrays, or when diffs[col] = compared_values assigns
\* an array whose length is not the number of rows of diffs.
DiffRaises(d1, d2, cols, keys) ==
    LET n1 == Len(LocPositions(d1.index, keys))
        n2 == Len(LocPositions(d2.index, keys))
        n == Len(AlignedRows(d1, d2, keys))
    IN  \E c \in Range(cols) :
            /\ IsTolerantColumn(d1, d2, c)
            /\ BroadcastLen(n1, n2) # n

\* diffs after the loop and the inversion: TRUE marks a different cell.
Diffs(d1, d2, cols, keys, atol, rtol) ==
    LET p1 == LocPositions(d1.index, keys)
        p2 == LocPositions(d2.index, keys)
        rows == AlignedRows(d1, d2, keys)
        equal(c, r) ==
            IF IsTolerantColumn(d1, d2, c)
            THEN ComparedValues(d1, d2, c, p1, p2, atol, rtol)[r]
            ELSE eq(d1.data[c][rows[r].i], d2.data[c][rows[r].j])
    IN  [r \in DOMAIN rows |->
            [key |-> rows[r].key, i |-> rows[r].i, j |-> rows[r].j,
             cells |-> [c \in Range(cols) |-> ~equal(c, r)]]]

\* rows_with_diffs = diffs[diffs.any(axis=1)]
RowsWithDiffs(diffs, cols) ==
    Take(diffs, {r \in DOMAIN diffs : \E c \in Range(cols) : diffs[r].cells[c]})

\* Variant: no column is dropped.
ColumnsWithDiffs_keep_all(diffs, cols) == cols

\* columns_with_diffs = diffs.any(axis=0), as the labels kept by .loc
ColumnsWithDiffs(diffs, cols) ==
    Take(cols, {n \in DOMAIN cols : \E r \in DOMAIN diffs : diffs[r].cells[cols[n]]})

\* The sparse table: None, or the rows and columns holding a difference.
ValueDifferences(diffs, cols) ==
    LET rows_with_diffs == RowsWithDiffs(diffs, cols)
        columns_with_diffs == ColumnsWithDiffs(diffs, cols)
    IN  IF diffs = <<>> \/ cols = <<>> THEN None
        ELSE IF rows_with_diffs = <<>> THEN None
        ELSE IF columns_with_diffs = <<>> THEN None
        ELSE [columns |-> columns_with_diffs,
              rows |-> [r \in DOMAIN rows_with_diffs |->
                          [key |-> rows_with_diffs[r].key,
                           i |-> rows_with_diffs[r].i,
                           j |-> rows_with_diffs[r].j,
                           cells |-> [c \in Range(columns_with_diffs) |->
                                         rows_with_diffs[r].cells[c]]]]]

\* HighLevelDiff._diff on the two dataframes: the fields of the object, or
\* the exception raised.
HighLevelDiff_diff(d1, d2, atol, rtol) ==
    LET columns_shared == ColumnsShared(d1, d2)
        index_values_shared == IndexValuesShared(d1, d2)
        overlap == HasOverlap(columns_shared, index_values_shared)
    IN  IF overlap /\ DiffRaises(d1, d2, columns_shared, index_values_shared)
        THEN [raised |-> "ValueError"]
        ELSE [raised |-> "",
              absolute_tolerance |-> atol,
              relative_tolerance |-> rtol,
              columns_missing_in_df1 |-> ColumnsMissing(d2, d1),
              columns_missing_in_df2 |-> ColumnsMissing(d1, d2),
              columns_shared |-> columns_shared,
              index_columns_missing_in_df1 |-> IndexColumnsMissing(d2, d1),
              index_columns_missing_in_df2 |-> IndexColumnsMissing(d1, d2),
              index_columns_shared |-> IndexColumnsShared(d1, d2),
              index_values_missing_in_df1 |-> IndexValuesMissing(d2, d1),
              index_values_missing_in_df2 |-> IndexValuesMissing(d1, d2),
              index_values_shared |-> index_values_shared,
              duplicate_index_values_in_df1 |-> Duplicated(d1.index),
              duplicate_index_values_in_df2 |-> Duplicated(d2.index),
              value_differences |->
                  IF overlap
                  THEN ValueDifferences(
                           Diffs(d1, d2, columns_shared, index_values_shared,
                                 atol, rtol),
                           columns_shared)
                  ELSE None]

\* The defaults of the signature of HighLevelDiff.__init__.
HighLevelDiff_defaults ==
    [absolute_tolerance |-> Rational(1, 100000000),
     relative_tolerance |-> Rational(1, 100000)]

\* HighLevelDiff(df1, df2, absolute_tolerance=, relative_tolerance=): the
\* object after __init__, or the exception that __init__ let escape.  An
\* argument that is not a dataframe has no attribute columns.
HighLevelDiff(d1, d2, atol, rtol) ==
    IF type(d1) # "DataFrame" \/ type(d2) # "DataFrame"
    THEN [raised |-> "AttributeError"]
    ELSE HighLevelDiff_diff(d1, d2,
             Default(atol, HighLevelDiff_defaults.absolute_tolerance),
             Default(rtol, HighLevelDiff_defaults.relative_tolerance))

\* The properties of a constructed HighLevelDiff h.
value_differences_count(h) ==
    IF h.value_differences = None THEN 0
    ELSE LET vd == h.value_differences
         IN  Cardinality({<<r, c>> \in (DOMAIN vd.rows) \X Range(vd.columns) :
                            vd.rows[r].cells[c]})

columns_with_differences(h) ==
    IF h.value_differences = None THEN <<>> ELSE h.value_differences.columns

\* Variant: the row-keys that were compared instead of those that differ.
rows_with_differences_shared(h) == h.index_values_shared

rows_with_differences(h) ==
    IF h.value_differences = None THEN <<>>
    ELSE LET vd == h.value_differences
         IN  [r \in DOMAIN vd.rows |-> vd.rows[r].key]

are_structurally_equal(h) ==
    ~(\/ any(h.columns_missing_in_df1)
      \/ any(h.columns_missing_in_df2)
      \/ any(h.index_columns_missing_in_df1)
      \/ any(h.index_columns_missing_in_df2)
      \/ any(h.index_values_missing_in_df1)
      \/ any(h.index_values_missing_in_df2)
      \/ any(h.duplicate_index_values_in_df1)
      \/ any(h.duplicate_index_values_in_df2))

are_overlapping_values_equal(h) == h.value_differences = None

are_equal(h) == are_structurally_equal(h) /\ are_overlapping_values_equal(h)

(***************************************************************************)
(* owid.datautils.utils: the helpers of the report.  A line is a string.   *)
(* The row-keys of the tables of the model are single values, so the       *)
(* report does not take the branch of get_compact_list_description for     *)
(* tuples (composite row-keys); the calls of the helper on its own do.     *)
(***************************************************************************)
\* str(item)
Str(x) == IF x = NoName THEN "None" ELSE ToString(x)

\* sep.join(str(item) for item in items)
RECURSIVE Join(_, _)
Join(items, sep) ==
    IF items = <<>> THEN ""
    ELSE IF Len(items) = 1 THEN Str(items[1])
    ELSE Str(items[1]) \o sep \o Join(Tail(items), sep)

get_list_description_with_max_length(items, max_items) ==
    IF Len(items) > max_items
    THEN LET half == max_items \div 2
             head == SubSeq(items, 1, half)
             \* items[-0:] is the whole list
             tail == IF half = 0 THEN items
                     ELSE SubSeq(items, Len(items) - half + 1, Len(items))
         IN  "[" \o ToString(Len(items)) \o " items] "
                 \o Join(head, ", ") \o " ... \""
                 \o Join(tail, ", ")
    ELSE Join(items, ", ")

\* The defaults of the signature of get_compact_list_description.
\* tuple_headers is only tested for truth and length, so its default None
\* is written as the empty list.
get_compact_list_description_defaults == [tuple_headers |-> <<>>, max_items |-> 20]

\* The lines yielded for items_iterable.  item_type is the type the
\* isinstance tests find in every item: "int" (the elements of a list or of
\* a pandas Index of integers), "tuple" (of ints, all of one width) or
\* "other" (the elements of a numpy array are numpy integers).
RECURSIVE get_compact_list_description(_, _, _, _)
get_compact_list_description(items_iterable, item_type, tuple_headers, max_items) ==
    LET items == Range(items_iterable)
        n == Cardinality(items)
    IN  IF items = {} THEN <<"[]">>
        ELSE IF item_type = "int"
        THEN LET sorted_items == sorted(items)
             IN  IF n = 1 THEN <<Str(sorted_items[1])>>
                 ELSE IF n = 2
                 THEN <<Str(sorted_items[1]) \o ", " \o Str(sorted_items[2])>>
                 ELSE IF n = sorted_items[n] - sorted_items[1]
                 THEN <<Str(sorted_items[1]) \o "-" \o Str(sorted_items[n])>>
                 ELSE <<get_list_description_with_max_length(sorted_items, max_items)>>
        ELSE IF item_type = "tuple"
        THEN LET width == Len(CHOOSE t \in items : TRUE)
                 \* zip(*items): the f-th components of the items; the call
                 \* below makes a set of them, so their order is immaterial.
                 transposed == [f \in 1..width |-> sorted({t[f] : t \in items})]
                 lines == Flatten(
                     [f \in 1..width |->
                         get_compact_list_description(
                             transposed[f], "int",
                             get_compact_list_description_defaults.tuple_headers,
                             get_compact_list_description_defaults.max_items)])
             IN  IF tuple_headers # <<>> /\ Len(tuple_headers) = Len(lines)
                 THEN [i \in DOMAIN lines |-> tuple_headers[i] \o ": " \o lines[i]]
                 ELSE lines
        ELSE <<get_list_description_with_max_length(sorted(items), max_items)>>

\* Variant: the empty elements are yielded too.
yield_list_lines_keeping_empty(description_, items) ==
    IF Len(items) > 1
    THEN <<description_ \o ":">> \o [i \in DOMAIN items |-> "  " \o items[i]]
    ELSE IF Len(items) = 1 THEN <<description_ \o ": " \o items[1]>>
    ELSE <<>>

yield_list_lines(description_, items) ==
    IF Len(items) > 1
    THEN <<description_ \o ":">> \o
         Flatten([i \in DOMAIN items |->
                     IF items[i] # "" THEN <<"  " \o items[i]>> ELSE <<>>])
    ELSE IF Len(items) = 1 THEN <<description_ \o ": " \o items[1]>>
    ELSE <<>>

\* The items passed by the report are lists, indexes and arrays, never
\* None.  formatted_item stands for format_function(item), which is
\* evaluated only when the item is not empty.
yield_formatted_if_not_empty(item, formatted_item, fallback_message) ==
    IF any(item) THEN formatted_item
    ELSE IF fallback_message # "" THEN <<fallback_message>>
    ELSE <<>>

(***************************************************************************)
(* HighLevelDiff.get_description_lines_for_diff: what the generator        *)
(* yields, and the exception that ends it, if any.  Each yielded line is   *)
(* kept with the name of the unit (the yield statement, or the property    *)
(* formatted by yield_formatted_if_not_empty) that produced it:            *)
(*   lines[i] is the i-th string yielded, units[i] the unit it belongs to. *)
(* The index names passed as tuple_headers are read only for tuple items,  *)
(* which the single-level row-keys of the model are not.                   *)
(***************************************************************************)
\* Variant: the value differences are disclosed before the structure.
YieldedInOrder_values_first(verdict, structure, values, preview) ==
    verdict \o values \o structure \o preview

\* The order of the blocks of the generator: the verdict (474-477), the
\* structure (479-604), the value differences (610-634), the preview
\* (638-661).
YieldedInOrder(verdict, structure, values, preview) ==
    verdict \o structure \o values \o preview

get_description_lines_for_diff(h, df1_label, df2_label, use_color_tags, preview_different_dataframe_values, show_shared, truncate_lists_longer_than) ==
    LET red == IF use_color_tags THEN "[red]" ELSE ""
        red_end == IF use_color_tags THEN "[/red]" ELSE ""
        green == IF use_color_tags THEN "[green]" ELSE ""
        green_end == IF use_color_tags THEN "[/green]" ELSE ""
        blue == IF use_color_tags THEN "[blue]" ELSE ""
        blue_end == IF use_color_tags THEN "[/blue]" ELSE ""
        unit(name, ls) == [i \in DOMAIN ls |-> [unit |-> name, line |-> ls[i]]]
        formatted(name, item, python_ints, text, fallback_message) ==
            unit(name,
                 yield_formatted_if_not_empty(
                     item,
                     yield_list_lines(
                         text,
                         get_compact_list_description(
                             item,
                             IF python_ints THEN "int" ELSE "other",
                             get_compact_list_description_defaults.tuple_headers,
                             truncate_lists_longer_than)),
                     fallback_message))
        shared(name, item, text, fallback_message) ==
            IF show_shared
            THEN formatted(name, item, TRUE, blue \o text \o blue_end,
                           red \o fallback_message \o red_end)
            ELSE <<>>
        structure ==
            IF are_equal(h) THEN <<>>
            ELSE IF are_structurally_equal(h)
            THEN unit("structure",
                      <<"The structure is " \o green \o "identical" \o green_end>>)
            ELSE unit("structure",
                      <<"The structure is " \o red \o "different" \o red_end>>)
                 \o shared("columns_shared", h.columns_shared,
                           "Shared columns", "No shared columns")
                 \o formatted("columns_missing_in_df1", h.columns_missing_in_df1,
                              TRUE, "Columns missing in " \o df1_label, "")
                 \o formatted("columns_missing_in_df2", h.columns_missing_in_df2,
                              TRUE, "Columns missing in " \o df2_label, "")
                 \o shared("index_columns_shared", h.index_columns_shared,
                           "Shared index columns", "No shared index columns")
                 \o formatted("index_columns_missing_in_df1",
                              h.index_columns_missing_in_df1, TRUE,
                              "Index columns missing in " \o df1_label, "")
                 \o formatted("index_columns_missing_in_df2",
                              h.index_columns_missing_in_df2, TRUE,
                              "Index columns missing in " \o df2_label, "")
                 \o shared("index_values_shared", h.index_values_shared,
                           "Shared index values", "No shared index values")
                 \o formatted("index_values_missing_in_df1",
                              h.index_values_missing_in_df1, TRUE,
                              "Index values missing in " \o df1_label, "")
                 \o formatted("index_values_missing_in_df2",
                              h.index_values_missing_in_df2, TRUE,
                              "Index values missing in " \o df2_label, "")
                 \o formatted("duplicate_index_values_in_df1",
                              h.duplicate_index_values_in_df1, FALSE,
                              "Duplicate index values in " \o df1_label, "")
                 \o formatted("duplicate_index_values_in_df2",
                              h.duplicate_index_values_in_df2, FALSE,
                              "Duplicate index values in " \o df2_label, "")
        values ==
            IF ~are_equal(h) /\ h.value_differences # None
            THEN unit("value_differences",
                      <<"Values in the shared columns/rows are " \o red
                            \o "different" \o red_end \o ". ("
                            \o ToString(value_differences_count(h))
                            \o " different cells)">>)
                 \o formatted("columns_with_differences",
                              columns_with_differences(h), FALSE,
                              "Columns with diffs", "")
                 \o formatted("rows_with_differences",
                              rows_with_differences(h), FALSE, "Rows with diffs", "")
            ELSE <<>>
        verdict ==
            IF are_equal(h)
            THEN unit("are_equal",
                      <<green \o df1_label \o " is equal to " \o df2_label
                            \o green_end>>)
            ELSE unit("are_equal",
                      <<red \o df1_label \o " is not equal to " \o df2_label
                            \o red_end>>)
        \* `self.value_differences and ...`: None is falsy, and the truth
        \* value of a DataFrame is a ValueError.
        preview ==
            IF preview_different_dataframe_values /\ h.value_differences = None
            THEN unit("preview", <<"The datasets have no overlapping columns/rows.">>)
            ELSE <<>>
        yielded == YieldedInOrder(verdict, structure, values, preview)
    IN  [lines |-> [i \in DOMAIN yielded |-> yielded[i].line],
         units |-> [i \in DOMAIN yielded |-> yielded[i].unit],
         raised |-> IF preview_different_dataframe_values
                       /\ h.value_differences # None
                    THEN "ValueError" ELSE ""]

(***************************************************************************)
(* compare(df1, df2, columns=None, absolute_tolerance, relative_tolerance) *)
(***************************************************************************)
\* Variant: the element of df2 taken from its first row that carries the
\* row-key of the row of df1, as a comparison of two Series aligns them.
ComparedRow_aligned_on_index(d1, d2, col, r, atol, rtol) ==
    LET rows == Positions(d2.index, d1.index[r])
    IN  IF rows = <<>> THEN FALSE
        ELSE LET a == d1.data[col][r]
                 b == d2.data[col][rows[1]]
             IN  IF IsTolerantColumn(d1, d2, col)
                 THEN isclose(a, b, atol, rtol)
                 ELSE eq(a, b)

\* One element of compared_row before the both-null positions are set:
\* == on the two .values arrays for an object/category column, np.isclose
\* otherwise.
ComparedRow(d1, d2, col, r, atol, rtol) ==
    LET a == d1.data[col][r]
        b == d2.data[col][r]
    IN  IF IsTolerantColumn(d1, d2, col)
        THEN isclose(a, b, atol, rtol)
        ELSE eq(a, b)

\* Variant: the both-null positions keep the verdict of the comparison.
ComparedCell_nulls_as_compared(d1, d2, col, r, atol, rtol) ==
    ComparedRow(d1, d2, col, r, atol, rtol)

\* One element of compared[col]: compared_row after the positions where
\* both values are null have been set to True.
ComparedCell(d1, d2, col, r, atol, rtol) ==
    IF IsNull(d1.data[col][r]) /\ IsNull(d2.data[col][r])
    THEN TRUE
    ELSE ComparedRow(d1, d2, col, r, atol, rtol)

\* Variant: the row counts are checked before the types.
compare_raises_length_first(d1, d2) ==
    IF len(d1) # len(d2) THEN "DataFramesHaveDifferentLengths"
    ELSE IF type(d1) # "DataFrame" \/ type(d2) # "DataFrame"
    THEN "ObjectsAreNotDataframes"
    ELSE ""

\* "Ensure dataframes can be compared": the exception raised, or "".
compare_raises(d1, d2) ==
    IF type(d1) # "DataFrame" \/ type(d2) # "DataFrame"
    THEN "ObjectsAreNotDataframes"
    ELSE IF len(d1) # len(d2) THEN "DataFramesHaveDifferentLengths"
    ELSE ""

\* The defaults of the signature of compare.
compare_defaults ==
    [absolute_tolerance |-> Rational(1, 100000000),
     relative_tolerance |-> Rational(1, 100000000)]

\* compare with columns=None (the sorted common columns): the exception
\* raised, or the table of booleans returned.  A table without a column
\* has no row.
compare(d1, d2, atol, rtol) ==
    IF compare_raises(d1, d2) # ""
    THEN [raised |-> compare_raises(d1, d2)]
    ELSE LET columns == ColumnsShared(d1, d2)
             tol_a == Default(atol, compare_defaults.absolute_tolerance)
             tol_r == Default(rtol, compare_defaults.relative_tolerance)
         IN  [raised |-> "",
              columns |-> columns,
              values |-> [c \in Range(columns) |->
                  [r \in DOMAIN d1.index |->
                      ComparedCell(d1, d2, c, r, tol_a, tol_r)]]]

(***************************************************************************)
(* are_equal(df1, df2, absolute_tolerance, relative_tolerance), the        *)
(* function of the module (are_equal above is the property of              *)
(* HighLevelDiff of the same name).                                        *)
(***************************************************************************)
\* pd.DataFrame()
EmptyDataFrame == [raised |-> "", columns |-> <<>>, values |-> <<>>]

\* The shape of a table of booleans: it has the rows of its columns, and
\* none when it has no column.
Shape(t) ==
    <<IF t.columns = <<>> THEN 0 ELSE Len(t.values[t.columns[1]]), Len(t.columns)>>

\* compared.all().all()
AllAll(t) == \A c \in Range(t.columns) : \A r \in DOMAIN t.values[c] : t.values[c][r]

\* Variant: the indexes compared as sets of row-keys.
IndexesDiffer_as_sets(d1, d2) == Range(d1.index) # Range(d2.index)

\* (df1.index != df2.index).any(), on two indexes of the same length
IndexesDiffer(d1, d2) == \E i \in DOMAIN d1.index : d1.index[i] # d2.index[i]

\* The defaults of the signature of are_equal.
are_equal_defaults ==
    [absolute_tolerance |-> Rational(1, 100000000),
     relative_tolerance |-> Rational(1, 100000000)]

\* The pair (equal, compared) returned, or the exception raised: an
\* argument that is not a dataframe has no attribute columns.
are_dataframes_equal(d1, d2, atol, rtol) ==
    IF type(d1) # "DataFrame" \/ type(d2) # "DataFrame"
    THEN [raised |-> "AttributeError"]
    ELSE
    LET missing_in_df1 == sorted(Range(d2.columns) \ Range(d1.columns))
        missing_in_df2 == sorted(Range(d1.columns) \ Range(d2.columns))
        can_be_compared == Len(d1.index) = Len(d2.index)
        common_columns == sorted(Range(d1.columns) \cap Range(d2.columns))
        all_columns == sorted(Range(d1.columns) \cup Range(d2.columns))
        \* equal after the checks of the columns, the row counts, the
        \* order of the columns and the dtypes
        equal_so_far ==
            /\ Len(missing_in_df1) = 0
            /\ Len(missing_in_df2) = 0
            /\ can_be_compared
            /\ IF common_columns = all_columns
               THEN /\ d1.columns = d2.columns
                    /\ \A c \in Range(common_columns) : d1.dtypes[c] = d2.dtypes[c]
               ELSE FALSE
    IN  IF ~can_be_compared
        THEN [raised |-> "", equal |-> FALSE, compared |-> EmptyDataFrame]
        ELSE LET table == compare(d1, d2,
                              Default(atol, are_equal_defaults.absolute_tolerance),
                              Default(rtol, are_equal_defaults.relative_tolerance))
             IN  [raised |-> "",
                  equal |-> equal_so_far /\ ~IndexesDiffer(d1, d2) /\ AllAll(table),
                  compared |-> table]

(***************************************************************************)
(* The inputs.  The two dataframes and the tolerances are drawn from five  *)
(* bounded families, each varying one aspect of the input in full:         *)
(*   cells     one shared column, one shared row: every pair of values,    *)
(*             of dtypes and of tolerances, under every key;               *)
(*   grid      two shared columns and two shared rows: every pattern of    *)
(*             agreeing, disagreeing and missing cells;                    *)
(*   indexes   one shared column: every pair of key sequences, with        *)
(*             duplicates;                                                 *)
(*   columns   every pair of column lists, over short indexes;             *)
(*   names     every pair of index names, over short indexes.              *)
(***************************************************************************)
DataFrame(columns, index, index_name, dtypes, data) ==
    [type |-> "DataFrame", columns |-> columns, index |-> index,
     index_name |-> index_name, dtypes |-> dtypes, data |-> data]

\* A column of n cells all holding v.
Filled(columns, n, v) == [c \in Range(columns) |-> [r \in 1..n |-> v]]

\* Sequences over S of length at most n.
SeqsUpTo(S, n) == UNION {[1..m -> S] : m \in 0..n}

\* Lists of distinct column labels.
ColumnLists == {cs \in SeqsUpTo(Labels, MaxLabel + 1) :
                   \A a, b \in DOMAIN cs : a # b => cs[a] # cs[b]}

GridColumns == <<0, 1>>
GridIndex == <<1, 2>>
GridValues1 == {NaN, 2}
GridValues2 == {NaN, 2, 3}
GridDTypes == {"float64", "object"}

\* Every column of the list with dtype dt.
AllOfDType(columns, dt) == [c \in Range(columns) |-> dt]

InitCells ==
    \E k \in Keys, dt1 \in DTypes, dt2 \in DTypes, a \in Values, b \in Values :
        LET columns == <<MaxLabel>>
        IN  /\ df1 = DataFrame(columns, <<k>>, NoName,
                               AllOfDType(columns, dt1), Filled(columns, 1, a))
            /\ df2 = DataFrame(columns, <<k>>, NoName,
                               AllOfDType(columns, dt2), Filled(columns, 1, b))
            /\ absolute_tolerance \in Tolerances
            /\ relative_tolerance \in Tolerances

InitGrid ==
    \E dtypes \in [Range(GridColumns) -> GridDTypes],
       data1 \in [Range(GridColumns) -> [DOMAIN GridIndex -> GridValues1]],
       data2 \in [Range(GridColumns) -> [DOMAIN GridIndex -> GridValues2]] :
        /\ df1 = DataFrame(GridColumns, GridIndex, NoName, dtypes, data1)
        /\ df2 = DataFrame(GridColumns, GridIndex, NoName, dtypes, data2)
        /\ absolute_tolerance = Rational(0, 1)
        /\ relative_tolerance \in {Rational(0, 1), Rational(2, 5)}

InitIndexes ==
    \E index1 \in SeqsUpTo(Keys, MaxRows), index2 \in SeqsUpTo(Keys, MaxRows),
       dt \in GridDTypes, v \in {1, 2} :
        LET columns == <<MaxLabel>>
        IN  /\ df1 = DataFrame(columns, index1, NoName, AllOfDType(columns, dt),
                               Filled(columns, Len(index1), 1))
            /\ df2 = DataFrame(columns, index2, NoName, AllOfDType(columns, dt),
                               Filled(columns, Len(index2), v))
            /\ absolute_tolerance = Rational(0, 1)
            /\ relative_tolerance = Rational(0, 1)

InitColumns ==
    \E columns1 \in ColumnLists, columns2 \in ColumnLists,
       index1 \in SeqsUpTo(Keys, 2), index2 \in SeqsUpTo(Keys, 1),
       dt \in GridDTypes, v \in {1, 2} :
        /\ df1 = DataFrame(columns1, index1, NoName, AllOfDType(columns1, dt),
                           Filled(columns1, Len(index1), 1))
        /\ df2 = DataFrame(columns2, index2, NoName, AllOfDType(columns2, dt),
                           Filled(columns2, Len(index2), v))
        /\ absolute_tolerance = Rational(0, 1)
        /\ relative_tolerance = Rational(0, 1)

InitIndexNames ==
    \E name1 \in IndexNames, name2 \in IndexNames,
       index1 \in SeqsUpTo(Keys, 1), index2 \in SeqsUpTo(Keys, 1) :
        LET columns == <<MaxLabel>>
        IN  /\ df1 = DataFrame(columns, index1, name1, AllOfDType(columns, "float64"),
                               Filled(columns, Len(index1), 1))
            /\ df2 = DataFrame(columns, index2, name2, AllOfDType(columns, "float64"),
                               Filled(columns, Len(index2), 1))
            /\ absolute_tolerance = Rational(0, 1)
            /\ relative_tolerance = Rational(0, 1)

Init ==
    /\ \/ InitCells
       \/ InitGrid
       \/ InitIndexes
       \/ InitColumns
       \/ InitIndexNames
    /\ diff = None
    /\ compared = None
    /\ equal_compared = None
    /\ description = None
    /\ call = None
    /\ result = None

(***************************************************************************)
(* The operations.                                                         *)
(***************************************************************************)
\* diff = HighLevelDiff(df1, df2, absolute_tolerance, relative_tolerance)
Construct ==
    /\ diff = None
    /\ diff' = HighLevelDiff(df1, df2, absolute_tolerance, relative_tolerance)
    /\ UNCHANGED <<df1, df2, absolute_tolerance, relative_tolerance, compared, equal_compared,
                   description, call, result>>

\* compared = compare(df1, df2, None, absolute_tolerance, relative_tolerance)
Compare ==
    /\ compared = None
    /\ compared' = compare(df1, df2, absolute_tolerance, relative_tolerance)
    /\ UNCHANGED <<df1, df2, absolute_tolerance, relative_tolerance, diff, equal_compared,
                   description, call, result>>

\* equal_compared = are_equal(df1, df2, absolute_tolerance, relative_tolerance)
AreEqual ==
    /\ equal_compared = None
    /\ equal_compared' =
           are_dataframes_equal(df1, df2, absolute_tolerance, relative_tolerance)
    /\ UNCHANGED <<df1, df2, absolute_tolerance, relative_tolerance, diff, compared,
                   description, call, result>>

Next == Construct \/ Compare

Spec == Init /\ [][Next]_vars

\* The function are_equal on the same inputs.
NextAreEqual == AreEqual

SpecAreEqual == Init /\ [][NextAreEqual]_vars

(***************************************************************************)
(* The three entry points called with arguments of any kind: each of df1   *)
(* and df2 is a dataframe or a list, and each tolerance is given or left   *)
(* out of the call.                                                        *)
(***************************************************************************)
ArgumentValues == {NaN, 100000, 100001}

ArgumentTables ==
    UNION {{LET columns == <<MaxLabel>>
            IN  DataFrame(columns, [r \in 1..n |-> r], NoName,
                          AllOfDType(columns, "float64"),
                          [c \in Range(columns) |-> cells]) :
              cells \in [1..n -> ArgumentValues]} : n \in 0..2}

ArgumentLists == {[type |-> "list", items |-> [r \in 1..n |-> 1]] : n \in 0..1}

InitArguments ==
    /\ df1 \in ArgumentTables \cup ArgumentLists
    /\ df2 \in ArgumentTables \cup ArgumentLists
    /\ absolute_tolerance \in {Omitted, Rational(0, 1)}
    /\ relative_tolerance \in {Omitted, Rational(0, 1)}
    /\ diff = None
    /\ compared = None
    /\ equal_compared = None
    /\ description = None
    /\ call = None
    /\ result = None

NextArguments == Construct \/ Compare \/ AreEqual

SpecArguments == InitArguments /\ [][NextArguments]_vars

(***************************************************************************)
(* The report of a constructed HighLevelDiff, under every setting of its   *)
(* options.                                                                *)
(***************************************************************************)
TruncateLimits == {1, 20}

\* description = list(diff.get_description_lines_for_diff("df1", "df2", ...))
Describe ==
    /\ diff # None
    /\ diff.raised = ""
    /\ description = None
    /\ \E use_color_tags \in BOOLEAN, preview \in BOOLEAN, show_shared \in BOOLEAN,
          truncate \in TruncateLimits :
          LET yielded == get_description_lines_for_diff(
                             diff, "df1", "df2", use_color_tags, preview,
                             show_shared, truncate)
          IN  description' =
                  [use_color_tags |-> use_color_tags,
                   preview_different_dataframe_values |-> preview,
                   show_shared |-> show_shared,
                   truncate_lists_longer_than |-> truncate,
                   lines |-> yielded.lines,
                   units |-> yielded.units,
                   raised |-> yielded.raised]
    /\ UNCHANGED <<df1, df2, absolute_tolerance, relative_tolerance, diff, compared,
                   equal_compared, call, result>>

InitReport ==
    /\ \/ InitIndexes
       \/ InitColumns
       \/ InitIndexNames
    /\ diff = None
    /\ compared = None
    /\ equal_compared = None
    /\ description = None
    /\ call = None
    /\ result = None

NextReport == Construct \/ Describe

SpecReport == InitReport /\ [][NextReport]_vars

(***************************************************************************)
(* groupby_agg(df, groupby_columns, aggregations, num_allowed_nans,        *)
(* frac_allowed_nans).  The dataframe handed to it is a record             *)
(*   groupby : the cells of the column grouped by, one per row             *)
(*   columns : the labels of the other columns                             *)
(*   data    : column label -> the cells of the column, one per row        *)
(* and the grouped dataframe maps each group key and column to a cell.     *)
(* The keys grouped by are not null, and one aggregation is applied to     *)
(* every column; a limit is None or a rational.                            *)
(***************************************************************************)
\* The rows of the group of key k.
GroupRows(df, k) == {r \in DOMAIN df.groupby : df.groupby[r] = k}

RECURSIVE SumOf(_)
SumOf(s) == IF s = <<>> THEN 0 ELSE Head(s) + SumOf(Tail(s))

\* .agg(aggregations) on the cells of one group: pandas skips the nulls;
\* the sum of no value is 0, the max of no value is null.
Aggregate(cells, aggregation) ==
    LET valid == Take(cells, {i \in DOMAIN cells : ~IsNull(cells[i])})
    IN  IF aggregation = "sum" THEN SumOf(valid)
        ELSE IF valid = <<>> THEN NaN
        ELSE CHOOSE v \in Range(valid) : \A w \in Range(valid) : w <= v

\* The cells of column c in the rows of the group of key k, in row order.
GroupCells(df, c, k) == Take(df.data[c], GroupRows(df, k))

\* Variant: the nulls of a group are counted over all its columns.
count_missing_in_groups_over_columns(df) ==
    [k \in Range(df.groupby) |->
        [c \in Range(df.columns) |->
            Cardinality({<<r, d>> \in GroupRows(df, k) \X Range(df.columns) :
                           IsNull(df.data[d][r])})]]

\* The number of nulls per group and column.
count_missing_in_groups(df) ==
    [k \in Range(df.groupby) |->
        [c \in Range(df.columns) |->
            Cardinality({r \in GroupRows(df, k) : IsNull(df.data[c][r])})]]

\* grouped[mask]: the cells where the mask is False become null.
Where(grouped, mask) ==
    [k \in DOMAIN grouped |->
        [c \in DOMAIN grouped[k] |-> IF mask[k][c] THEN grouped[k][c] ELSE NaN]]

groupby_agg(df, aggregation, num_allowed_nans, frac_allowed_nans) ==
    LET grouped ==
            [k \in Range(df.groupby) |->
                [c \in Range(df.columns) |->
                    Aggregate(GroupCells(df, c, k), aggregation)]]
        num_nans_detected == count_missing_in_groups(df)
        \* .size(): the rows of each group, nulls included.
        num_elements == [k \in Range(df.groupby) |-> Cardinality(GroupRows(df, k))]
        within_num ==
            [k \in Range(df.groupby) |->
                [c \in Range(df.columns) |->
                    num_nans_detected[k][c] * num_allowed_nans.den
                        <= num_allowed_nans.num]]
        within_frac ==
            [k \in Range(df.groupby) |->
                [c \in Range(df.columns) |->
                    num_nans_detected[k][c] * frac_allowed_nans.den
                        <= frac_allowed_nans.num * num_elements[k]]]
        limited == IF num_allowed_nans # None THEN Where(grouped, within_num)
                   ELSE grouped
    IN  IF frac_allowed_nans # None THEN Where(limited, within_frac)
        ELSE limited

(***************************************************************************)
(* The helpers of owid.datautils.utils called on their own: call holds the *)
(* name of the function and its arguments, result.lines the list of what   *)
(* it returned or yielded.                                                 *)
(***************************************************************************)
MaxItems == 3
MaxItem == 3

\* The values of the items of a list of integers.
Items == 0..MaxItem

\* Composite row-keys of two fields; the first components can form a
\* contiguous run (0, 1, 2) or one with gaps (0, 2, 5).
TupleItems == {0, 1, 2, 5} \X {0, 1}

\* The elements handed to yield_list_lines.
Sublines == {"", "a", "b"}

MaxItemsLimits == 0..MaxItems

CompactLimits == {1, 2, get_compact_list_description_defaults.max_items}

TupleHeaders == {get_compact_list_description_defaults.tuple_headers,
                 <<"country", "year">>}

ListDescriptionCalls ==
    {[function |-> "get_list_description_with_max_length",
      items |-> items, max_items |-> max_items] :
        items \in SeqsUpTo(Items, MaxItems), max_items \in MaxItemsLimits}

ListLinesCalls ==
    {[function |-> "yield_list_lines", description |-> "Columns", items |-> items] :
        items \in SeqsUpTo(Sublines, MaxItems)}

CompactListCalls ==
    {[function |-> "get_compact_list_description", items_iterable |-> items,
      item_type |-> item_type,
      tuple_headers |-> get_compact_list_description_defaults.tuple_headers,
      max_items |-> max_items] :
        items \in SeqsUpTo(Items, MaxItems), item_type \in {"int", "other"},
        max_items \in CompactLimits}

CompactTupleListCalls ==
    {[function |-> "get_compact_list_description", items_iterable |-> items,
      item_type |-> "tuple", tuple_headers |-> tuple_headers,
      max_items |-> max_items] :
        items \in SeqsUpTo(TupleItems, MaxItems), tuple_headers \in TupleHeaders,
        max_items \in CompactLimits}

\* result = [get_list_description_with_max_length(items, max_items)]
GetListDescriptionWithMaxLength ==
    /\ call # None
    /\ call.function = "get_list_description_with_max_length"
    /\ result = None
    /\ result' = [lines |-> <<get_list_description_with_max_length(
                                  call.items, call.max_items)>>]
    /\ UNCHANGED <<df1, df2, absolute_tolerance, relative_tolerance, diff, compared,
                   equal_compared, description, call>>

\* result = list(yield_list_lines(description, items))
YieldListLines ==
    /\ call # None
    /\ call.function = "yield_list_lines"
    /\ result = None
    /\ result' = [lines |-> yield_list_lines(call.description, call.items)]
    /\ UNCHANGED <<df1, df2, absolute_tolerance, relative_tolerance, diff, compared,
                   equal_compared, description, call>>

\* result = list(get_compact_list_description(items_iterable, tuple_headers,
\*                                            max_items))
GetCompactListDescription ==
    /\ call # None
    /\ call.function = "get_compact_list_description"
    /\ result = None
    /\ result' = [lines |-> get_compact_list_description(
                                 call.items_iterable, call.item_type,
                                 call.tuple_headers, call.max_items)]
    /\ UNCHANGED <<df1, df2, absolute_tolerance, relative_tolerance, diff, compared,
                   equal_compared, description, call>>

InitUtils ==
    /\ \/ call \in ListDescriptionCalls
       \/ call \in ListLinesCalls
       \/ call \in CompactListCalls
       \/ call \in CompactTupleListCalls
    /\ result = None
    /\ df1 = None
    /\ df2 = None
    /\ absolute_tolerance = Omitted
    /\ relative_tolerance = Omitted
    /\ diff = None
    /\ compared = None
    /\ equal_compared = None
    /\ description = None

NextUtils ==
    GetListDescriptionWithMaxLength \/ YieldListLines \/ GetCompactListDescription

SpecUtils == InitUtils /\ [][NextUtils]_vars

(***************************************************************************)
(* groupby_agg called on its own: call holds its arguments, result.grouped *)
(* the dataframe returned.                                                 *)
(***************************************************************************)
GroupbyKeys == {2001, 2002}

GroupbyColumns == <<"value_01", "value_02">>

GroupbyValues == {NaN, 1}

Aggregations == {"sum", "max"}

NumAllowedNans == {None, Rational(0, 1), Rational(1, 1)}

FracAllowedNans == {None, Rational(0, 1), Rational(1, 2)}

GroupbyTables ==
    UNION {{[groupby |-> groupby, columns |-> GroupbyColumns, data |-> data] :
              groupby \in [1..n -> GroupbyKeys],
              data \in [Range(GroupbyColumns) -> [1..n -> GroupbyValues]]} :
           n \in 0..MaxRows}

\* result = groupby_agg(df, ["year"], aggregations, num_allowed_nans,
\*                      frac_allowed_nans)
GroupbyAgg ==
    /\ call # None
    /\ call.function = "groupby_agg"
    /\ result = None
    /\ result' = [grouped |-> groupby_agg(call.df, call.aggregation,
                                          call.num_allowed_nans,
                                          call.frac_allowed_nans)]
    /\ UNCHANGED <<df1, df2, absolute_tolerance, relative_tolerance, diff, compared,
                   equal_compared, description, call>>

InitGroupby ==
    /\ \E df \in GroupbyTables, aggregation \in Aggregations,
          num_allowed_nans \in NumAllowedNans,
          frac_allowed_nans \in FracAllowedNans :
          call = [function |-> "groupby_agg", df |-> df,
                  aggregation |-> aggregation,
                  num_allowed_nans |-> num_allowed_nans,
                  frac_allowed_nans |-> frac_allowed_nans]
    /\ result = None
    /\ df1 = None
    /\ df2 = None
    /\ absolute_tolerance = Omitted
    /\ relative_tolerance = Omitted
    /\ diff = None
    /\ compared = None
    /\ equal_compared = None
    /\ description = None

NextGroupby == GroupbyAgg

SpecGroupby == InitGroupby /\ [][NextGroupby]_vars

(***************************************************************************)
(* Vocabulary of the properties.                                           *)
(***************************************************************************)
\* __init__ has returned: diff is a HighLevelDiff object.
Constructed == diff # None /\ diff.raised = ""

\* compare() has returned a table.
Returned == compared # None /\ compared.raised = ""

\* The guard of the value diff held during construction.
ValueDiffAttempted == diff.columns_shared # <<>> /\ any(diff.index_values_shared)

\* The cells of value_differences that are marked different, each named by
\* the row of df1, the row of df2 and the column it compares.
DifferentCells(h) ==
    IF h.value_differences = None THEN {}
    ELSE LET vd == h.value_differences
         IN  {<<vd.rows[r].i, vd.rows[r].j, c>> :
                 <<r, c>> \in {x \in (DOMAIN vd.rows) \X Range(vd.columns) :
                                  vd.rows[x[1]].cells[x[2]]}}

\* The pairs <<row of df1, row of df2>> that the value diff compares: the
\* rows of the shared row-keys, as the differ aligns them.
SharedRowPairs ==
    LET rows == AlignedRows(df1, df2, IndexValuesShared(df1, df2))
    IN  {<<rows[r].i, rows[r].j>> : r \in DOMAIN rows}

SharedColumnSet == Range(df1.columns) \cap Range(df2.columns)

\* Columns compared with tolerance: numeric on both sides.
NumericColumn(c) ==
    /\ df1.dtypes[c] \notin {"object", "category"}
    /\ df2.dtypes[c] \notin {"object", "category"}

LessEq(p, q) == p.num * q.den <= q.num * p.den

StrictlySorted(s) == \A a, b \in DOMAIN s : a < b => s[a] < s[b]

NoRepeats(s) == \A a, b \in DOMAIN s : a # b => s[a] # s[b]

(***************************************************************************)
(* C1.  In every constructed HighLevelDiff, a cell that is missing in both *)
(* df1 and df2 is not a different cell of value_differences, for a column  *)
(* of any dtype and whatever the tolerances.                               *)
(***************************************************************************)
C1_BothNullNeverDifferent ==
    Constructed =>
        \A x \in DifferentCells(diff) :
            ~(IsNull(df1.data[x[3]][x[1]]) /\ IsNull(df2.data[x[3]][x[2]]))

(***************************************************************************)
(* C2.  Whenever the two tables share a column and a row-key, construction *)
(* yields a value diff in which every aligned pair of rows of a shared key *)
(* whose values in a shared column are not equal under the tolerant        *)
(* comparator is a different cell.                                         *)
(***************************************************************************)
C2_TolerantlyEqual(a, b, c) ==
    \/ IsNull(a) /\ IsNull(b)
    \/ IF NumericColumn(c)
       THEN isclose(a, b, absolute_tolerance, relative_tolerance)
       ELSE ~IsNull(a) /\ ~IsNull(b) /\ a = b

C2_SharedDisagreementsReported ==
    (diff # None /\ SharedColumnSet # {} /\ SharedRowPairs # {}) =>
        /\ diff.raised = ""
        /\ \A x \in SharedRowPairs : \A c \in SharedColumnSet :
              ~C2_TolerantlyEqual(df1.data[c][x[1]], df2.data[c][x[2]], c)
                  => <<x[1], x[2], c>> \in DifferentCells(diff)

(***************************************************************************)
(* C3.  are_structurally_equal is true exactly when the eight lists of     *)
(* missing columns, missing index columns, missing index values and        *)
(* duplicate index values are all empty.                                   *)
(***************************************************************************)
C3_StructurallyEqualIffNothingMissing ==
    Constructed =>
        (are_structurally_equal(diff) <=>
            /\ diff.columns_missing_in_df1 = <<>>
            /\ diff.columns_missing_in_df2 = <<>>
            /\ diff.index_columns_missing_in_df1 = <<>>
            /\ diff.index_columns_missing_in_df2 = <<>>
            /\ diff.index_values_missing_in_df1 = <<>>
            /\ diff.index_values_missing_in_df2 = <<>>
            /\ diff.duplicate_index_values_in_df1 = <<>>
            /\ diff.duplicate_index_values_in_df2 = <<>>)

(***************************************************************************)
(* C4.  Reflexivity: diffing a table against an identical copy of itself   *)
(* gives are_equal and no value_differences, for any tolerances.  Stated   *)
(* for the tables whose row-keys are unique (a duplicated row-key makes a  *)
(* table structurally unequal to any table by definition).                 *)
(***************************************************************************)
C4_Reflexivity ==
    (diff # None /\ df1 = df2 /\ NoRepeats(df1.index)) =>
        /\ diff.raised = ""
        /\ diff.value_differences = None
        /\ are_equal(diff)

(***************************************************************************)
(* C5.  Sparsity: when value_differences is present it has a row and a     *)
(* column, every row of it holds a different cell and every column of it   *)
(* holds a different cell in one of its rows.                              *)
(***************************************************************************)
C5_Sparsity ==
    (Constructed /\ diff.value_differences # None) =>
        LET vd == diff.value_differences
        IN  /\ vd.rows # <<>>
            /\ vd.columns # <<>>
            /\ \A r \in DOMAIN vd.rows : \E c \in Range(vd.columns) : vd.rows[r].cells[c]
            /\ \A c \in Range(vd.columns) : \E r \in DOMAIN vd.rows : vd.rows[r].cells[c]

\* A value diff from which both an agreeing row and an agreeing column
\* were dropped.
C5_Witness ==
    /\ Constructed
    /\ diff.value_differences # None
    /\ Len(diff.value_differences.rows) < Len(diff.index_values_shared)
    /\ Len(diff.value_differences.columns) < Len(diff.columns_shared)

(***************************************************************************)
(* C6.  The numeric criterion.  For two non-null values a (of df1) and b   *)
(* (of df2) of a numeric column, compare() marks the position equal, and   *)
(* a HighLevelDiff that computed the value diff leaves the cell out of     *)
(* the different cells, exactly when the criterion holds.                  *)
(***************************************************************************)
\* |a - b| <= max(absolute_tolerance, relative_tolerance * |b|)
C6_WithinMax(a, b) ==
    \/ Abs(a - b) * absolute_tolerance.den <= absolute_tolerance.num
    \/ Abs(a - b) * relative_tolerance.den <= relative_tolerance.num * Abs(b)

\* |a - b| <= absolute_tolerance + relative_tolerance * |b|
C6_WithinSum(a, b) ==
    Abs(a - b) * absolute_tolerance.den * relative_tolerance.den
        <= absolute_tolerance.num * relative_tolerance.den
             + relative_tolerance.num * Abs(b) * absolute_tolerance.den

\* The numeric, non-null positions of compare()'s result.
C6_ComparedPositions ==
    {x \in Range(compared.columns) \X (DOMAIN df1.index) :
        /\ NumericColumn(x[1])
        /\ ~IsNull(df1.data[x[1]][x[2]])
        /\ ~IsNull(df2.data[x[1]][x[2]])}

\* The numeric, non-null cells of the value diff: a shared column and an
\* aligned pair of rows of a shared key.
C6_DiffedCells ==
    {x \in SharedRowPairs \X SharedColumnSet :
        /\ NumericColumn(x[2])
        /\ ~IsNull(df1.data[x[2]][x[1][1]])
        /\ ~IsNull(df2.data[x[2]][x[1][2]])}

\* The claim as stated: equal iff within max(atol, rtol * |b|).
C6_EqualIffWithinMax ==
    /\ Returned =>
          \A x \in C6_ComparedPositions :
              compared.values[x[1]][x[2]]
                  <=> C6_WithinMax(df1.data[x[1]][x[2]], df2.data[x[1]][x[2]])
    /\ (Constructed /\ ValueDiffAttempted) =>
          \A x \in C6_DiffedCells :
              <<x[1][1], x[1][2], x[2]>> \notin DifferentCells(diff)
                  <=> C6_WithinMax(df1.data[x[2]][x[1][1]], df2.data[x[2]][x[1][2]])

\* As amended: equal iff within atol + rtol * |b|.
C6_EqualIffWithinSum ==
    /\ Returned =>
          \A x \in C6_ComparedPositions :
              compared.values[x[1]][x[2]]
                  <=> C6_WithinSum(df1.data[x[1]][x[2]], df2.data[x[1]][x[2]])
    /\ (Constructed /\ ValueDiffAttempted) =>
          \A x \in C6_DiffedCells :
              <<x[1][1], x[1][2], x[2]>> \notin DifferentCells(diff)
                  <=> C6_WithinSum(df1.data[x[2]][x[1][1]], df2.data[x[2]][x[1][2]])

\* Both operations have run on a numeric cell that is within the sum of
\* the two tolerances but within neither tolerance alone, and found it equal.
C6_Witness ==
    /\ Returned
    /\ Constructed
    /\ ValueDiffAttempted
    /\ \E x \in C6_DiffedCells :
          LET a == df1.data[x[2]][x[1][1]]
              b == df2.data[x[2]][x[1][2]]
          IN  /\ x[1][1] = x[1][2]
              /\ ~C6_WithinMax(a, b)
              /\ C6_WithinSum(a, b)
              /\ compared.values[x[2]][x[1][1]]
              /\ <<x[1][1], x[1][2], x[2]>> \notin DifferentCells(diff)

(***************************************************************************)
(* C7.  With a zero absolute tolerance, compare() marks a numeric,         *)
(* non-null position equal exactly when |a - b| <= relative_tolerance *    *)
(* |b|, b being the value of df2: the relative tolerance is scaled by the  *)
(* second operand only.                                                    *)
(***************************************************************************)
C7_RelativeScaledBySecond ==
    (Returned /\ absolute_tolerance.num = 0) =>
        \A x \in C6_ComparedPositions :
            LET a == df1.data[x[1]][x[2]]
                b == df2.data[x[1]][x[2]]
            IN  compared.values[x[1]][x[2]]
                    <=> Abs(a - b) * relative_tolerance.den
                            <= relative_tolerance.num * Abs(b)

\* compare() found a = 2, b = 3 equal at relative tolerance 0.4, and
\* compare() with the operands swapped finds the position unequal.
C7_Witness ==
    /\ Returned
    /\ absolute_tolerance.num = 0
    /\ relative_tolerance = Rational(2, 5)
    /\ \E x \in C6_ComparedPositions :
          /\ df1.data[x[1]][x[2]] = 2
          /\ df2.data[x[1]][x[2]] = 3
          /\ compared.values[x[1]][x[2]]
          /\ ~compare(df2, df1, absolute_tolerance, relative_tolerance).values[x[1]][x[2]]

(***************************************************************************)
(* C8.  Tolerance monotonicity: on the same tables, under tolerances at    *)
(* least as large, compare() keeps every position it found equal, and      *)
(* HighLevelDiff reports no different cell that it did not report before.  *)
(***************************************************************************)
C8_LargerTolerances ==
    {t \in Tolerances \X Tolerances :
        LessEq(absolute_tolerance, t[1]) /\ LessEq(relative_tolerance, t[2])}

C8_ToleranceMonotonicity ==
    /\ Returned =>
          \A t \in C8_LargerTolerances :
              \A c \in Range(compared.columns) : \A r \in DOMAIN df1.index :
                  compared.values[c][r] => compare(df1, df2, t[1], t[2]).values[c][r]
    /\ Constructed =>
          \A t \in C8_LargerTolerances :
              LET larger == HighLevelDiff(df1, df2, t[1], t[2])
              IN  /\ larger.raised = ""
                  /\ DifferentCells(larger) \subseteq DifferentCells(diff)

\* A cell reported different that larger tolerances make equal.
C8_Witness ==
    /\ Constructed
    /\ DifferentCells(diff) # {}
    /\ \E t \in C8_LargerTolerances :
          DifferentCells(HighLevelDiff(df1, df2, t[1], t[2])) = {}

(***************************************************************************)
(* C9.  Constructing a HighLevelDiff never raises, whatever columns or     *)
(* row-keys are missing or duplicated in either table.                     *)
(***************************************************************************)
C9_ConstructionNeverRaises == diff # None => diff.raised = ""

(***************************************************************************)
(* C10.  The structural diff is set algebra: the missing and shared        *)
(* columns, index columns and index values are the differences and the     *)
(* intersection of the two tables' sets; the column lists are sorted, the  *)
(* index value lists hold each key once; shared and missing-in-the-other   *)
(* partition each table's columns and keys.                                *)
(***************************************************************************)
C10_StructuralSetAlgebra ==
    Constructed =>
        LET c1 == Range(df1.columns)
            c2 == Range(df2.columns)
            n1 == {df1.index_name}
            n2 == {df2.index_name}
            k1 == Range(df1.index)
            k2 == Range(df2.index)
        IN  /\ Range(diff.columns_missing_in_df1) = c2 \ c1
            /\ Range(diff.columns_missing_in_df2) = c1 \ c2
            /\ Range(diff.columns_shared) = c1 \cap c2
            /\ StrictlySorted(diff.columns_missing_in_df1)
            /\ StrictlySorted(diff.columns_missing_in_df2)
            /\ StrictlySorted(diff.columns_shared)
            /\ Range(diff.index_columns_missing_in_df1) = n2 \ n1
            /\ Range(diff.index_columns_missing_in_df2) = n1 \ n2
            /\ Range(diff.index_columns_shared) = n1 \cap n2
            /\ StrictlySorted(diff.index_columns_missing_in_df1)
            /\ StrictlySorted(diff.index_columns_missing_in_df2)
            /\ StrictlySorted(diff.index_columns_shared)
            /\ Range(diff.index_values_missing_in_df1) = k2 \ k1
            /\ Range(diff.index_values_missing_in_df2) = k1 \ k2
            /\ Range(diff.index_values_shared) = k1 \cap k2
            /\ NoRepeats(diff.index_values_missing_in_df1)
            /\ NoRepeats(diff.index_values_missing_in_df2)
            /\ NoRepeats(diff.index_values_shared)
            /\ Range(diff.columns_shared) \cup Range(diff.columns_missing_in_df2) = c1
            /\ Range(diff.columns_shared) \cup Range(diff.columns_missing_in_df1) = c2
            /\ Range(diff.columns_shared) \cap Range(diff.columns_missing_in_df2) = {}
            /\ Range(diff.columns_shared) \cap Range(diff.columns_missing_in_df1) = {}
            /\ Range(diff.index_values_shared) \cup Range(diff.index_values_missing_in_df2) = k1
            /\ Range(diff.index_values_shared) \cup Range(diff.index_values_missing_in_df1) = k2
            /\ Range(diff.index_values_shared) \cap Range(diff.index_values_missing_in_df2) = {}
            /\ Range(diff.index_values_shared) \cap Range(diff.index_values_missing_in_df1) = {}

\* A diff of tables with a shared and a missing column, and with a shared
\* and a missing row-key.
C10_Witness ==
    /\ Constructed
    /\ diff.columns_shared # <<>>
    /\ diff.columns_missing_in_df1 # <<>>
    /\ diff.index_values_shared # <<>>
    /\ diff.index_values_missing_in_df2 # <<>>

\* A diff of tables whose indexes are named differently and hold different
\* keys.
C10_WitnessIndexNames ==
    /\ Constructed
    /\ diff.index_columns_missing_in_df1 # <<>>
    /\ diff.index_columns_missing_in_df2 # <<>>
    /\ diff.index_values_missing_in_df1 # <<>>
    /\ diff.index_values_missing_in_df2 # <<>>

(***************************************************************************)
(* C11.  Duplicate detection: the values of duplicate_index_values_in_df1  *)
(* (resp. df2) are exactly the row-keys that occur more than once in the   *)
(* index of df1 (resp. df2), and a duplicate in either table makes         *)
(* are_structurally_equal false.                                           *)
(***************************************************************************)
C11_RepeatedKeys(ix) ==
    {k \in Range(ix) : Cardinality({i \in DOMAIN ix : ix[i] = k}) > 1}

C11_DuplicateDetection ==
    Constructed =>
        /\ Range(diff.duplicate_index_values_in_df1) = C11_RepeatedKeys(df1.index)
        /\ Range(diff.duplicate_index_values_in_df2) = C11_RepeatedKeys(df2.index)
        /\ (C11_RepeatedKeys(df1.index) # {} \/ C11_RepeatedKeys(df2.index) # {})
              => ~are_structurally_equal(diff)

(***************************************************************************)
(* C12.  In every constructed HighLevelDiff of two tables that share no    *)
(* column or share no row-key, value_differences is None,                  *)
(* value_differences_count is 0, and columns_with_differences and          *)
(* rows_with_differences are empty.                                        *)
(***************************************************************************)
C12_NoOverlap ==
    SharedColumnSet = {} \/ Range(df1.index) \cap Range(df2.index) = {}

C12_NoOverlapNoValueDifferences ==
    (Constructed /\ C12_NoOverlap) =>
        /\ diff.value_differences = None
        /\ value_differences_count(diff) = 0
        /\ columns_with_differences(diff) = <<>>
        /\ rows_with_differences(diff) = <<>>

\* A diff of two tables that both have columns and share a row-key, but
\* share no column.
C12_Witness ==
    /\ Constructed
    /\ SharedColumnSet = {}
    /\ df1.columns # <<>>
    /\ df2.columns # <<>>
    /\ diff.index_values_shared # <<>>

(***************************************************************************)
(* C13.  Symmetry of detection: the diff of (df2, df1) has, as missing in  *)
(* df2, the columns, index columns and index values that the diff of       *)
(* (df1, df2) has as missing in df1, and the other way round; the          *)
(* duplicate index values swap likewise; columns_shared is the same list   *)
(* in both orders.                                                         *)
(***************************************************************************)
C13_SymmetryOfDetection ==
    Constructed =>
        LET swapped == HighLevelDiff(df2, df1, absolute_tolerance, relative_tolerance)
        IN  /\ swapped.raised = ""
            /\ swapped.columns_missing_in_df2 = diff.columns_missing_in_df1
            /\ swapped.columns_missing_in_df1 = diff.columns_missing_in_df2
            /\ swapped.index_columns_missing_in_df2 = diff.index_columns_missing_in_df1
            /\ swapped.index_columns_missing_in_df1 = diff.index_columns_missing_in_df2
            /\ swapped.index_values_missing_in_df2 = diff.index_values_missing_in_df1
            /\ swapped.index_values_missing_in_df1 = diff.index_values_missing_in_df2
            /\ swapped.duplicate_index_values_in_df2 = diff.duplicate_index_values_in_df1
            /\ swapped.duplicate_index_values_in_df1 = diff.duplicate_index_values_in_df2
            /\ swapped.columns_shared = diff.columns_shared

\* A diff of tables that list their two shared columns in different
\* orders, with a row-key missing in one table only and a duplicated
\* row-key in one table only.
C13_Witness ==
    /\ Constructed
    /\ Len(diff.columns_shared) > 1
    /\ df1.columns # df2.columns
    /\ diff.index_values_missing_in_df1 # diff.index_values_missing_in_df2
    /\ diff.duplicate_index_values_in_df1 # diff.duplicate_index_values_in_df2

\* A diff of tables each of which lacks a column of the other.
C13_WitnessMissingColumns ==
    /\ Constructed
    /\ diff.columns_missing_in_df1 # <<>>
    /\ diff.columns_missing_in_df2 # <<>>
    /\ diff.columns_missing_in_df1 # diff.columns_missing_in_df2

(***************************************************************************)
(* C14.  Called without tolerance arguments, compare(), are_equal() and    *)
(* HighLevelDiff all use absolute_tolerance = 1e-8 and relative_tolerance  *)
(* = 1e-8, and so give the same verdict on every numeric cell.             *)
(***************************************************************************)
C14_TolerancesOmitted == absolute_tolerance = Omitted /\ relative_tolerance = Omitted

\* The three entry points have returned on two dataframes.
C14_AllReturned ==
    /\ Returned
    /\ Constructed
    /\ equal_compared # None
    /\ equal_compared.raised = ""

C14_SameDefaultTolerances ==
    C14_TolerancesOmitted =>
        /\ Constructed =>
              /\ diff.absolute_tolerance = Rational(1, 100000000)
              /\ diff.relative_tolerance = Rational(1, 100000000)
        /\ C14_AllReturned =>
              \A c \in Range(compared.columns) : \A r \in DOMAIN df1.index :
                  /\ equal_compared.compared.values[c][r] <=> compared.values[c][r]
                  /\ <<r, r, c>> \notin DifferentCells(diff) <=> compared.values[c][r]

\* The verdicts alone.
C14_SameDefaultVerdicts ==
    (C14_TolerancesOmitted /\ C14_AllReturned) =>
        \A c \in Range(compared.columns) : \A r \in DOMAIN df1.index :
            /\ equal_compared.compared.values[c][r] <=> compared.values[c][r]
            /\ <<r, r, c>> \notin DifferentCells(diff) <=> compared.values[c][r]

(***************************************************************************)
(* C15.  In the table returned by compare(), every position at which both  *)
(* df1 and df2 hold a null is True, for a column of any dtype and          *)
(* whatever the tolerances.                                                *)
(***************************************************************************)
C15_BothNullPositions ==
    {x \in Range(compared.columns) \X (DOMAIN df1.index) :
        IsNull(df1.data[x[1]][x[2]]) /\ IsNull(df2.data[x[1]][x[2]])}

C15_BothNullAlwaysTrue ==
    Returned => \A x \in C15_BothNullPositions : compared.values[x[1]][x[2]]

\* compare() has returned True at a both-null position of an object or
\* category column, where the direct comparison alone gives False.
C15_Witness ==
    /\ Returned
    /\ \E x \in C15_BothNullPositions :
          /\ ~NumericColumn(x[1])
          /\ compared.values[x[1]][x[2]]
          /\ ~ComparedRow(df1, df2, x[1], x[2], absolute_tolerance, relative_tolerance)

(***************************************************************************)
(* C16.  compare() raises ObjectsAreNotDataframes when either argument is  *)
(* not a dataframe, whatever the lengths, and                              *)
(* DataFramesHaveDifferentLengths when both are dataframes with different  *)
(* row counts; what it raises carries no table; on two dataframes of       *)
(* equal row count it raises neither.                                      *)
(***************************************************************************)
C16_BothDataFrames == type(df1) = "DataFrame" /\ type(df2) = "DataFrame"

C16_CompareFailsFast ==
    compared # None =>
        /\ ~C16_BothDataFrames
              => compared = [raised |-> "ObjectsAreNotDataframes"]
        /\ (C16_BothDataFrames /\ Len(df1.index) # Len(df2.index))
              => compared = [raised |-> "DataFramesHaveDifferentLengths"]
        /\ (C16_BothDataFrames /\ Len(df1.index) = Len(df2.index))
              => /\ compared.raised = ""
                 /\ DOMAIN compared = {"raised", "columns", "values"}

\* compare() has raised ObjectsAreNotDataframes on a list and a dataframe
\* of different lengths.
C16_Witness ==
    /\ compared # None
    /\ type(df1) = "list"
    /\ type(df2) = "DataFrame"
    /\ len(df1) # len(df2)
    /\ compared.raised = "ObjectsAreNotDataframes"

\* compare() has raised DataFramesHaveDifferentLengths.
C16_WitnessLengths ==
    /\ compared # None
    /\ C16_BothDataFrames
    /\ compared.raised = "DataFramesHaveDifferentLengths"

(***************************************************************************)
(* C17.  compare() is positional: the table returned has the sorted        *)
(* common columns and one boolean per row position, it is the same table   *)
(* whatever row-keys either dataframe carries, and it is all True for two  *)
(* dataframes with identical values and different indexes.                 *)
(***************************************************************************)
C17_Reindexed(d, ix) == [d EXCEPT !.index = ix]

C17_IdenticalValues == df1.columns = df2.columns /\ df1.data = df2.data

C17_ComparePositional ==
    Returned =>
        /\ compared.columns = sorted(SharedColumnSet)
        /\ \A c \in Range(compared.columns) : DOMAIN compared.values[c] = DOMAIN df1.index
        /\ \A ix \in [DOMAIN df1.index -> Keys] :
              /\ compare(C17_Reindexed(df1, ix), df2,
                         absolute_tolerance, relative_tolerance) = compared
              /\ compare(df1, C17_Reindexed(df2, ix),
                         absolute_tolerance, relative_tolerance) = compared
        /\ C17_IdenticalValues => AllAll(compared)

\* compare() has returned an all-True table with a column and a row for
\* two dataframes with identical values whose indexes share no row-key.
C17_Witness ==
    /\ Returned
    /\ C17_IdenticalValues
    /\ Range(df1.index) \cap Range(df2.index) = {}
    /\ compared.columns # <<>>
    /\ df1.index # <<>>
    /\ AllAll(compared)

(***************************************************************************)
(* C18.  The function are_equal never raises on two dataframes, and its    *)
(* first component is True exactly when the two dataframes have the same   *)
(* column names in the same order, the same dtype in every column, the     *)
(* same number of rows, indexes equal position by position, and every      *)
(* cell equal under compare() with the given tolerances (both-null cells   *)
(* equal).                                                                 *)
(***************************************************************************)
C18_CellEqual(c, r) ==
    LET a == df1.data[c][r]
        b == df2.data[c][r]
    IN  \/ IsNull(a) /\ IsNull(b)
        \/ IF NumericColumn(c)
           THEN /\ ~IsNull(a)
                /\ ~IsNull(b)
                /\ C6_WithinSum(a, b)
           ELSE ~IsNull(a) /\ ~IsNull(b) /\ a = b

C18_AreEqualIff ==
    equal_compared # None =>
        /\ equal_compared.raised = ""
        /\ equal_compared.equal <=>
              /\ df1.columns = df2.columns
              /\ \A c \in Range(df1.columns) : df1.dtypes[c] = df2.dtypes[c]
              /\ Len(df1.index) = Len(df2.index)
              /\ \A r \in DOMAIN df1.index : df1.index[r] = df2.index[r]
              /\ \A c \in Range(df1.columns) : \A r \in DOMAIN df1.index :
                    C18_CellEqual(c, r)

\* are_equal has returned True on two dataframes with a column and
\* several rows, one cell of which is null in both.
C18_Witness ==
    /\ equal_compared # None
    /\ equal_compared.raised = ""
    /\ equal_compared.equal
    /\ Len(df1.index) > 1
    /\ \E c \in Range(df1.columns) : \E r \in DOMAIN df1.index :
          IsNull(df1.data[c][r]) /\ IsNull(df2.data[c][r])

\* are_equal has returned False on dataframes that differ only in the
\* order of their row-keys.
C18_WitnessIndexOrder ==
    /\ equal_compared # None
    /\ equal_compared.raised = ""
    /\ ~equal_compared.equal
    /\ df1.index # df2.index
    /\ Len(df1.index) = Len(df2.index)
    /\ Range(df1.index) = Range(df2.index)
    /\ AllAll(equal_compared.compared)
    /\ df1.columns = df2.columns
    /\ df1.dtypes = df2.dtypes

(***************************************************************************)
(* C19.  The second component returned by the function are_equal is an     *)
(* empty table whenever df1 and df2 have different shapes (row counts or   *)
(* numbers of columns), and otherwise a table of the shape of df1 and df2. *)
(***************************************************************************)
C19_ShapeOf(d) == <<Len(d.index), Len(d.columns)>>

\* DataFrame.empty
C19_Empty(t) == Shape(t)[1] = 0 \/ Shape(t)[2] = 0

C19_SecondComponentShape ==
    (equal_compared # None /\ equal_compared.raised = "") =>
        IF C19_ShapeOf(df1) # C19_ShapeOf(df2)
        THEN C19_Empty(equal_compared.compared)
        ELSE Shape(equal_compared.compared) = C19_ShapeOf(df1)

\* The first half alone: different shapes give an empty table.
C19_DifferentShapesGiveEmpty ==
    (equal_compared # None /\ equal_compared.raised = ""
        /\ C19_ShapeOf(df1) # C19_ShapeOf(df2)) =>
        C19_Empty(equal_compared.compared)

(***************************************************************************)
(* C20.  When are_equal of the HighLevelDiff is true, the report is the    *)
(* single line '<df1_label> is equal to <df2_label>' (inside green tags    *)
(* when use_color_tags is set), under every setting of show_shared,        *)
(* preview_different_dataframe_values, truncate_lists_longer_than and      *)
(* use_color_tags.                                                         *)
(***************************************************************************)
C20_EqualLine ==
    IF description.use_color_tags
    THEN "[green]df1 is equal to df2[/green]"
    ELSE "df1 is equal to df2"

C20_EqualReportIsOneLine ==
    (description # None /\ are_equal(diff)) =>
        /\ description.raised = ""
        /\ description.lines = <<C20_EqualLine>>

\* The same without the preview.
C20_EqualReportIsOneLineWithoutPreview ==
    (description # None /\ are_equal(diff)
        /\ ~description.preview_different_dataframe_values) =>
        /\ description.raised = ""
        /\ description.lines = <<C20_EqualLine>>

(***************************************************************************)
(* C21.  For tables that are not equal the report opens with the           *)
(* "is not equal to" line, then states whether the structure is identical  *)
(* or different; the structural findings come in the order missing         *)
(* columns, missing index columns, missing index values, duplicate index   *)
(* values, all before the "Values in the shared columns/rows are           *)
(* different" line; the columns and rows with diffs come after that line;  *)
(* what the preview yields comes last.                                     *)
(***************************************************************************)
C21_Stage(unit) ==
    CASE unit = "are_equal" -> 0
      [] unit = "structure" -> 1
      [] unit \in {"columns_missing_in_df1", "columns_missing_in_df2"} -> 2
      [] unit \in {"index_columns_missing_in_df1",
                   "index_columns_missing_in_df2"} -> 3
      [] unit \in {"index_values_missing_in_df1",
                   "index_values_missing_in_df2"} -> 4
      [] unit \in {"duplicate_index_values_in_df1",
                   "duplicate_index_values_in_df2"} -> 5
      [] unit = "value_differences" -> 6
      [] unit \in {"columns_with_differences", "rows_with_differences"} -> 7
      [] unit = "preview" -> 8
      [] OTHER -> -1

\* The units that report what the tables share are not ordered by C21.
C21_Staged(unit) ==
    unit \notin {"columns_shared", "index_columns_shared", "index_values_shared"}

C21_NotEqualLine ==
    IF description.use_color_tags THEN "[red]df1 is not equal to df2[/red]"
    ELSE "df1 is not equal to df2"

C21_StructureLines ==
    IF description.use_color_tags
    THEN {"The structure is [green]identical[/green]",
          "The structure is [red]different[/red]"}
    ELSE {"The structure is identical", "The structure is different"}

C21_ReportOrdering ==
    (description # None /\ ~are_equal(diff)) =>
        LET units == description.units
            lines == description.lines
        IN  /\ Len(lines) >= 2
            /\ units[1] = "are_equal" /\ lines[1] = C21_NotEqualLine
            /\ units[2] = "structure" /\ lines[2] \in C21_StructureLines
            /\ \A i, j \in DOMAIN units :
                   (i < j /\ C21_Staged(units[i]) /\ C21_Staged(units[j])) =>
                       C21_Stage(units[i]) <= C21_Stage(units[j])
            /\ \A i \in DOMAIN units :
                   /\ units[i] = "value_differences" =>
                          \A j \in DOMAIN units :
                              C21_Stage(units[j]) = 7 => i < j
                   /\ (i > 1 => units[i] # "are_equal")
                   /\ (i > 2 => units[i] # "structure")

\* A report with a structural finding, the line of the value differences
\* and the rows with diffs.
C21_Witness ==
    /\ description # None
    /\ ~are_equal(diff)
    /\ \E i, j, k \in DOMAIN description.units :
           /\ description.units[i] = "columns_missing_in_df2"
           /\ description.units[j] = "value_differences"
           /\ description.units[k] = "rows_with_differences"

\* A report with two kinds of structural findings and the line of the
\* preview.
C21_WitnessPreview ==
    /\ description # None
    /\ ~are_equal(diff)
    /\ \E i, j, k \in DOMAIN description.units :
           /\ description.units[i] = "index_values_missing_in_df1"
           /\ description.units[j] = "duplicate_index_values_in_df2"
           /\ description.units[k] = "preview"

(***************************************************************************)
(* C22.  get_compact_list_description renders more than two distinct       *)
(* integers as the range "min-max" if and only if they are contiguous      *)
(* (every integer from min to max is among them).                          *)
(***************************************************************************)
C22_Min(S) == CHOOSE v \in S : \A w \in S : v <= w

C22_Max(S) == CHOOSE v \in S : \A w \in S : w <= v

C22_Contiguous(S) == \A v \in C22_Min(S)..C22_Max(S) : v \in S

C22_IntegersCompacted ==
    /\ result # None
    /\ call.function = "get_compact_list_description"
    /\ call.item_type = "int"
    /\ Cardinality(Range(call.items_iterable)) > 2

C22_RangeIffContiguous ==
    C22_IntegersCompacted =>
        LET S == Range(call.items_iterable)
            range == ToString(C22_Min(S)) \o "-" \o ToString(C22_Max(S))
        IN  (result.lines = <<range>>) <=> C22_Contiguous(S)

(***************************************************************************)
(* C23.  get_list_description_with_max_length shows every item in order    *)
(* when len(items) <= max_items; otherwise the output is "[N items] "      *)
(* followed by a head and a tail of the list in their original order,      *)
(* separated by an ellipsis, that together hold at most max_items items    *)
(* and never all N of them, for every max_items >= 0.                      *)
(***************************************************************************)
C23_Called ==
    /\ result # None
    /\ call.function = "get_list_description_with_max_length"

\* The ellipsis as the code writes it, and as plain dots.
C23_Ellipses == {" ... ", " ... \""}

\* The outputs that show the first h and the last t items of the list.
C23_HeadAndTail(items, h, t) ==
    {"[" \o ToString(Len(items)) \o " items] "
         \o Join(SubSeq(items, 1, h), ", ") \o ellipsis
         \o Join(SubSeq(items, Len(items) - t + 1, Len(items)), ", ") :
       ellipsis \in C23_Ellipses}

C23_Truncated(items, max_items) ==
    UNION {C23_HeadAndTail(items, h, t) :
             <<h, t>> \in {p \in (0..Len(items)) \X (0..Len(items)) :
                             /\ p[1] + p[2] <= max_items
                             /\ p[1] + p[2] < Len(items)}}

C23_Truncation ==
    C23_Called =>
        IF Len(call.items) <= call.max_items
        THEN result.lines = <<Join(call.items, ", ")>>
        ELSE result.lines[1] \in C23_Truncated(call.items, call.max_items)

\* The same for max_items >= 2.
C23_TruncationFromTwo ==
    (C23_Called /\ call.max_items >= 2) =>
        IF Len(call.items) <= call.max_items
        THEN result.lines = <<Join(call.items, ", ")>>
        ELSE result.lines[1] \in C23_Truncated(call.items, call.max_items)

(***************************************************************************)
(* C26.  yield_list_lines(description, items) yields nothing for no item,  *)
(* the one line "<description>: <item>" for one item, and for more items   *)
(* the header "<description>:" followed by the non-empty items in their    *)
(* original order, each indented by two spaces.                            *)
(***************************************************************************)
C26_Called == result # None /\ call.function = "yield_list_lines"

\* The non-empty elements of items, in order.
C26_NonEmpty(items) == Take(items, {i \in DOMAIN items : items[i] # ""})

C26_ListLines ==
    C26_Called =>
        LET items == call.items
            kept == C26_NonEmpty(items)
        IN  CASE Len(items) = 0 -> result.lines = <<>>
              [] Len(items) = 1 ->
                     result.lines = <<call.description \o ": " \o items[1]>>
              [] OTHER ->
                     /\ Len(result.lines) = 1 + Len(kept)
                     /\ result.lines[1] = call.description \o ":"
                     /\ \A i \in DOMAIN kept :
                            result.lines[i + 1] = "  " \o kept[i]

\* Several items, one of them empty and two of them not.
C26_Witness ==
    /\ C26_Called
    /\ Len(call.items) > 2
    /\ \E i \in DOMAIN call.items : call.items[i] = ""
    /\ Len(result.lines) = 3

\* A single item.
C26_WitnessSingle ==
    /\ C26_Called
    /\ Len(call.items) = 1
    /\ Len(result.lines) = 1

\* No item.
C26_WitnessNone == C26_Called /\ call.items = <<>> /\ result.lines = <<>>

(***************************************************************************)
(* C30.  The limit max_items given to get_compact_list_description applies *)
(* to every list it renders, the per-field component lists of composite    *)
(* (tuple) items included: no rendered component list shows more than      *)
(* max_items entries.                                                      *)
(***************************************************************************)
C30_TuplesCompacted ==
    /\ result # None
    /\ call.function = "get_compact_list_description"
    /\ call.item_type = "tuple"
    /\ call.items_iterable # <<>>

\* The distinct f-th components of the items, sorted.
C30_Component(f) == sorted({t[f] : t \in Range(call.items_iterable)})

\* The line of the f-th component without its header.
C30_Enumeration(f) == Join(C30_Component(f), ", ")

C30_Headed(f, line) ==
    IF call.tuple_headers # <<>> THEN call.tuple_headers[f] \o ": " \o line
    ELSE line

\* A component of more than max_items entries is not enumerated in full.
\* (max_items >= 2, where a list rendered on its own is cut as well.)
C30_ComponentsTruncated ==
    (C30_TuplesCompacted /\ call.max_items >= 2) =>
        \A f \in 1..2 :
            Len(C30_Component(f)) > call.max_items =>
                result.lines[f] # C30_Headed(f, C30_Enumeration(f))

\* The limit as the tuple branch applies it: that of the signature.
C30_ComponentsTruncatedAtDefault ==
    C30_TuplesCompacted =>
        \A f \in 1..2 :
            result.lines[f] =
                C30_Headed(f, get_compact_list_description(
                                  C30_Component(f), "int", <<>>,
                                  get_compact_list_description_defaults.max_items)[1])

(***************************************************************************)
(* C28.  groupby_agg: for every group and aggregated column the cell is    *)
(* NaN if and only if num_allowed_nans is given and the nulls of the       *)
(* column in the group exceed it, or frac_allowed_nans is given and their  *)
(* fraction exceeds it; otherwise the cell is the aggregate computed       *)
(* ignoring nulls.                                                         *)
(***************************************************************************)
C28_Called == result # None /\ call.function = "groupby_agg"

C28_Rows(k) == {r \in DOMAIN call.df.groupby : call.df.groupby[r] = k}

C28_Nulls(k, c) == Cardinality({r \in C28_Rows(k) : call.df.data[c][r] = NaN})

\* The limits force the cell of group k and column c to NaN.
C28_Forced(k, c) ==
    \/ /\ call.num_allowed_nans # None
       /\ C28_Nulls(k, c) * call.num_allowed_nans.den > call.num_allowed_nans.num
    \/ /\ call.frac_allowed_nans # None
       /\ C28_Nulls(k, c) * call.frac_allowed_nans.den
              > call.frac_allowed_nans.num * Cardinality(C28_Rows(k))

\* The non-null cells of column c in group k.
C28_Valid(k, c) == {r \in C28_Rows(k) : call.df.data[c][r] # NaN}

\* The aggregate of the non-null cells; NaN stands for a max of no value.
C28_AggregateIgnoringNulls(k, c) ==
    IF call.aggregation = "sum"
    THEN SumOf(Take(call.df.data[c], C28_Valid(k, c)))
    ELSE IF C28_Valid(k, c) = {} THEN NaN
    ELSE CHOOSE v \in {call.df.data[c][r] : r \in C28_Valid(k, c)} :
             \A r \in C28_Valid(k, c) : call.df.data[c][r] <= v

C28_Groups == Range(call.df.groupby)

C28_NoLimitsNoForcedNaN ==
    (C28_Called /\ call.num_allowed_nans = None /\ call.frac_allowed_nans = None
        /\ call.aggregation = "sum") =>
        \A k \in C28_Groups : \A c \in Range(call.df.columns) :
            result.grouped[k][c] # NaN

C28_WitnessNum ==
    /\ C28_Called
    /\ call.num_allowed_nans = Rational(0, 1)
    /\ call.frac_allowed_nans = None
    /\ \E k \in C28_Groups : \E c, d \in Range(call.df.columns) :
           /\ C28_Nulls(k, c) = 1 /\ result.grouped[k][c] = NaN
           /\ C28_Nulls(k, d) = 0 /\ result.grouped[k][d] = 2

(***************************************************************************)
(* C25.  value_differences_count is 0 when value_differences is absent;    *)
(* otherwise it is the number of true cells of value_differences, which is *)
(* the number of cells (aligned rows of a shared row-key, shared column)   *)
(* whose values disagree under the tolerant comparator: dropping the rows  *)
(* and columns that agree loses no disagreeing cell.                       *)
(***************************************************************************)
\* The true cells of value_differences.
C25_TrueCells ==
    LET vd == diff.value_differences
    IN  {x \in (DOMAIN vd.rows) \X Range(vd.columns) : vd.rows[x[1]].cells[x[2]]}

\* The compared cells whose values disagree.
C25_DisagreeingCells ==
    {x \in SharedRowPairs \X SharedColumnSet :
        ~C2_TolerantlyEqual(df1.data[x[2]][x[1][1]], df2.data[x[2]][x[1][2]], x[2])}

C25_CountOfDisagreements ==
    Constructed =>
        IF diff.value_differences = None
        THEN value_differences_count(diff) = 0
        ELSE /\ value_differences_count(diff) = Cardinality(C25_TrueCells)
             /\ value_differences_count(diff) = Cardinality(C25_DisagreeingCells)

\* The same for the tables whose shared columns are all numeric.
C25_CountOfNumericDisagreements ==
    (Constructed /\ \A c \in SharedColumnSet : NumericColumn(c)) =>
        IF diff.value_differences = None
        THEN value_differences_count(diff) = 0
        ELSE /\ value_differences_count(diff) = Cardinality(C25_TrueCells)
             /\ value_differences_count(diff) = Cardinality(C25_DisagreeingCells)

(***************************************************************************)
(* C24.  Preview mode: called with preview_different_dataframe_values on a *)
(* HighLevelDiff whose value_differences is present, the generator         *)
(* completes without raising and, after the findings, yields               *)
(* "Values with differences in df1:", the slice of df1, then the same two  *)
(* units for df2.                                                          *)
(***************************************************************************)
C24_PreviewOfDifferences ==
    /\ description # None
    /\ description.preview_different_dataframe_values
    /\ diff.value_differences # None

C24_PreviewCompletes ==
    C24_PreviewOfDifferences =>
        LET lines == description.lines
            n == Len(lines)
        IN  /\ description.raised = ""
            /\ n >= 4
            /\ lines[n - 3] = "Values with differences in df1:"
            /\ lines[n - 1] = "Values with differences in df2:"
            /\ \A i \in (n - 3)..n : description.units[i] = "preview"

\* What the generator does instead: it yields the findings and raises.
C24_PreviewRaises ==
    C24_PreviewOfDifferences =>
        /\ description.raised = "ValueError"
        /\ \A i \in DOMAIN description.units : description.units[i] # "preview"

(***************************************************************************)
(* C27.  Show-shared mode: called with show_shared on tables that are not  *)
(* equal, the report holds for each of the shared columns, the shared      *)
(* index columns and the shared index values either a unit listing them or *)
(* the "No shared ..." line, whether the structure differs or is identical *)
(* with values that differ.                                                *)
(***************************************************************************)
C27_SharedUnits == {"columns_shared", "index_columns_shared", "index_values_shared"}

C27_ShowShared ==
    /\ description # None
    /\ description.show_shared
    /\ ~are_equal(diff)

C27_SharedShown ==
    C27_ShowShared => C27_SharedUnits \subseteq Range(description.units)

\* The same for the tables whose structure differs.
C27_SharedShownWhenStructureDiffers ==
    (C27_ShowShared /\ ~are_structurally_equal(diff)) =>
        C27_SharedUnits \subseteq Range(description.units)

(***************************************************************************)
(* C29.  In preview mode the line "The datasets have no overlapping        *)
(* columns/rows." is yielded only when the two tables have no shared       *)
(* column or no shared row-key.                                            *)
(***************************************************************************)
C29_NoOverlapLine == "The datasets have no overlapping columns/rows."

C29_NoOverlapLineOnlyWithoutOverlap ==
    (description # None /\ C29_NoOverlapLine \in Range(description.lines)) =>
        \/ Range(df1.columns) \cap Range(df2.columns) = {}
        \/ Range(df1.index) \cap Range(df2.index) = {}

\* The line stands for an absent value_differences, whatever the overlap.
C29_NoOverlapLineIffValueDifferencesAbsent ==
    description # None =>
        (C29_NoOverlapLine \in Range(description.lines) <=>
            /\ description.preview_different_dataframe_values
            /\ diff.value_differences = None)
====
